---- MODULE Spec2Model ----
(***************************************************************************)
(* The in-memory B-tree of btree/src/lib.rs: BTree<KEY, VALUE, S> with its *)
(* Node operations lookup, upsert/split and delete/rebalance.              *)
(*                                                                         *)
(* A node is the record [is_leaf, keys, pivots]; keys is the sequence of   *)
(* KeyVal records and pivots the sequence of child nodes (the Rc<RefCell>  *)
(* handles are never shared, so a handle is modelled by the node it owns). *)
(* Indices are the 0-based indices of the source; element i of a Vec v is  *)
(* v[i + 1] here.  An Option is a sequence: None is << >>, Some(x) is      *)
(* << x >>.  Every operation that can panic (index out of range, unwrap of *)
(* None, assert!, debug_assert!, usize underflow) returns a record with a  *)
(* panic flag.                                                             *)
(***************************************************************************)
EXTENDS Integers, Sequences, FiniteSets, TLC

\* Largest order S explored (S is the const generic parameter of BTree).
MaxS == 2
\* Keys are 1..MaxKey; each key is put with itself as its value, as the
\* tests do (btree.put(i, i)).
MaxKey == 9
\* The smaller key range 1..MaxKeyKV of the runs that put any of the values
\* 1..MaxVal under a key.
MaxKeyKV == 4
MaxVal == 2

\* basic_structure_change builds a tree of order WalkS from the keys
\* 0..WalkLastKey; the walk modelled here then deletes up to MaxWalkDeletes
\* of them.
WalkS == 2
WalkLastKey == 16
MaxWalkDeletes == 2

Orders == 1..MaxS
Keys == 1..MaxKey
KeysKV == 1..MaxKeyKV
Vals == 1..MaxVal
WalkKeys == 0..WalkLastKey

VARIABLES
  S,          \* the order of the tree (const generic S)
  root,       \* BTree.root
  expecteds,  \* the reference map the tests compare against
  op,         \* the last call made on the tree: its kind and key, the kind
              \* of node that held the key and the level() of the tree before
              \* it, and what it returned
  panicked    \* a call has panicked

vars == <<S, root, expecteds, op, panicked>>

None == << >>
Some(x) == << x >>

----------------------------------------------------------------------------
(* Vec operations, 0-based as in the source *)

\* Vec::insert(i, x)
InsertAt(s, i, x) == SubSeq(s, 1, i) \o << x >> \o SubSeq(s, i + 1, Len(s))

\* Vec::remove(i), the vector that is left
RemoveAt(s, i) == SubSeq(s, 1, i) \o SubSeq(s, i + 2, Len(s))

\* Vec::pop(), the vector that is left
PopBack(s) == SubSeq(s, 1, Len(s) - 1)

----------------------------------------------------------------------------
(* Node *)

\* KeyVal::new
KeyVal(key, value) == [key |-> key, value |-> value]

\* Node::new
NewNode(is_leaf) == [is_leaf |-> is_leaf, keys |-> << >>, pivots |-> << >>]

\* Node::find_index: binary search of the key among the node's keys.
\* Ok(i) when keys[i] holds the key, else Err(i) with i the insertion point.
find_index(self, key) ==
  LET n == Len(self.keys) IN
  IF \E j \in 1..n : self.keys[j].key = key
  THEN [ok |-> TRUE, i |-> (CHOOSE j \in 1..n : self.keys[j].key = key) - 1]
  ELSE [ok |-> FALSE, i |-> Cardinality({j \in 1..n : self.keys[j].key < key})]

\* Node::size
RECURSIVE SumSizes(_, _)
RECURSIVE size(_)

\* size with the children's sizes left out
size_own_keys_only(self) == Len(self.keys)

size(self) ==
  IF self.is_leaf THEN Len(self.keys)
  ELSE Len(self.keys) + SumSizes(self.pivots, 1)
SumSizes(pivots, j) ==
  IF j > Len(pivots) THEN 0 ELSE size(pivots[j]) + SumSizes(pivots, j + 1)

\* Node::level
RECURSIVE level(_, _)
level(self, lvl) ==
  IF self.is_leaf THEN [value |-> lvl + 1, panic |-> FALSE]
  ELSE IF Len(self.pivots) = 0 THEN [value |-> 0, panic |-> TRUE]
  ELSE level(self.pivots[1], lvl + 1)

\* Node::lookup
RECURSIVE lookup(_, _)
lookup(self, key) ==
  LET f == find_index(self, key) IN
  IF f.ok THEN [value |-> Some(self.keys[f.i + 1].value), panic |-> FALSE]
  ELSE IF self.is_leaf THEN [value |-> None, panic |-> FALSE]
  ELSE IF f.i >= Len(self.pivots) THEN [value |-> None, panic |-> TRUE]
  ELSE lookup(self.pivots[f.i + 1], key)

\* The kind of node Node::lookup finds the key in: "leaf", "internal", or
\* "none" when the descent ends in a leaf that does not hold it
RECURSIVE where(_, _)
where(self, key) ==
  LET f == find_index(self, key) IN
  IF f.ok THEN (IF self.is_leaf THEN "leaf" ELSE "internal")
  ELSE IF self.is_leaf \/ f.i >= Len(self.pivots) THEN "none"
  ELSE where(self.pivots[f.i + 1], key)

----------------------------------------------------------------------------
(* Insertion *)

\* split making the right sibling with Node::new(true) whatever the node is
split_leaf_sibling(self) ==
  LET n == Len(self.keys) IN
  IF ~(self.is_leaf \/ n + 1 = Len(self.pivots))
  THEN [node |-> self, prop |-> None, panic |-> TRUE]
  ELSE IF n = 2 * S + 1
  THEN LET right_keys == SubSeq(self.keys, S + 1, n)
           np == Len(self.pivots)
           right_node == [is_leaf |-> TRUE,
                          keys |-> Tail(right_keys),
                          pivots |-> IF self.is_leaf THEN << >>
                                     ELSE SubSeq(self.pivots, S + 2, np)]
           left_node == [self EXCEPT
                           !.keys = SubSeq(self.keys, 1, S),
                           !.pivots = IF self.is_leaf THEN @
                                      ELSE SubSeq(@, 1, S + 1)]
       IN [node |-> left_node,
           prop |-> Some([keyval |-> right_keys[1], node |-> right_node]),
           panic |-> ~self.is_leaf /\ S + 1 > np]
  ELSE [node |-> self, prop |-> None, panic |-> ~(n <= 2 * S)]

\* Node::split that hands the right node the children from S on
split_children_from_S(self) ==
  LET n == Len(self.keys) IN
  IF ~(self.is_leaf \/ n + 1 = Len(self.pivots))
  THEN [node |-> self, prop |-> None, panic |-> TRUE]
  ELSE IF n = 2 * S + 1
  THEN LET right_keys == SubSeq(self.keys, S + 1, n)
           np == Len(self.pivots)
           right_node == [is_leaf |-> self.is_leaf,
                          keys |-> Tail(right_keys),
                          pivots |-> IF self.is_leaf THEN << >>
                                     ELSE SubSeq(self.pivots, S + 1, np)]
           left_node == [self EXCEPT
                           !.keys = SubSeq(self.keys, 1, S),
                           !.pivots = IF self.is_leaf THEN self.pivots
                                      ELSE SubSeq(self.pivots, 1, S)]
       IN [node |-> left_node,
           prop |-> Some([keyval |-> right_keys[1], node |-> right_node]),
           panic |-> FALSE]
  ELSE [node |-> self, prop |-> None, panic |-> ~(n <= 2 * S)]

\* Node::split
split(self) ==
  LET n == Len(self.keys) IN
  IF ~(self.is_leaf \/ n + 1 = Len(self.pivots))
  THEN [node |-> self, prop |-> None, panic |-> TRUE]
  ELSE IF n = 2 * S + 1
  THEN LET right_keys == SubSeq(self.keys, S + 1, n)
           left_keys == SubSeq(self.keys, 1, S)
           keyval == right_keys[1]
           np == Len(self.pivots)
           right_pivots == IF self.is_leaf THEN << >>
                           ELSE SubSeq(self.pivots, S + 2, np)
           left_pivots == IF self.is_leaf THEN self.pivots
                          ELSE SubSeq(self.pivots, 1, S + 1)
           right_node == [is_leaf |-> self.is_leaf,
                          keys |-> Tail(right_keys),
                          pivots |-> right_pivots]
           left_node == [self EXCEPT !.keys = left_keys, !.pivots = left_pivots]
       IN [node |-> left_node,
           prop |-> Some([keyval |-> keyval, node |-> right_node]),
           panic |-> \/ (~self.is_leaf /\ S + 1 > np)
                     \/ S # Len(left_keys)
                     \/ S # Len(right_node.keys)]
  ELSE [node |-> self, prop |-> None, panic |-> ~(n <= 2 * S)]

\* upsert_found reading the old value after it has stored the new one
upsert_found_reads_late(self, i, value) ==
  [node |-> [self EXCEPT !.keys[i + 1].value = value],
   prop |-> None,
   old |-> Some(value),
   panic |-> FALSE]

\* Node::upsert, Ok(i), that inserts a new entry before the one found
upsert_found_inserts(self, i, value) ==
  [node |-> [self EXCEPT
               !.keys = InsertAt(@, i, KeyVal(self.keys[i + 1].key, value))],
   prop |-> None,
   old |-> Some(self.keys[i + 1].value),
   panic |-> FALSE]

\* Node::upsert, Ok(i): the key is in this node, its value is replaced
upsert_found(self, i, value) ==
  [node |-> [self EXCEPT !.keys[i + 1].value = value],
   prop |-> None,
   old |-> Some(self.keys[i + 1].value),
   panic |-> FALSE]

\* Node::upsert
RECURSIVE upsert(_, _, _)
upsert(self, key, value) ==
  LET f == find_index(self, key)
      i == f.i
  IN
  IF f.ok
  THEN upsert_found(self, i, value)
  ELSE IF self.is_leaf
  THEN LET sp == split([self EXCEPT !.keys = InsertAt(@, i, KeyVal(key, value))])
       IN [node |-> sp.node, prop |-> sp.prop, old |-> None, panic |-> sp.panic]
  ELSE IF i >= Len(self.pivots)
  THEN [node |-> self, prop |-> None, old |-> None, panic |-> TRUE]
  ELSE LET r == upsert(self.pivots[i + 1], key, value)
           n1 == [self EXCEPT !.pivots[i + 1] = r.node]
       IN IF r.panic
          THEN [node |-> n1, prop |-> None, old |-> r.old, panic |-> TRUE]
          ELSE IF r.prop # None
          THEN LET sp == split([n1 EXCEPT
                                  !.keys = InsertAt(@, i, r.prop[1].keyval),
                                  !.pivots = InsertAt(@, i + 1, r.prop[1].node)])
               IN [node |-> sp.node, prop |-> sp.prop, old |-> r.old,
                   panic |-> sp.panic]
          ELSE [node |-> n1, prop |-> None, old |-> r.old, panic |-> FALSE]

\* BTree::put with the children of the new root in the wrong order
BTree_put_swaps_children(self, key, value) ==
  LET r == upsert(self, key, value) IN
  IF r.prop # None
  THEN [root |-> [is_leaf |-> FALSE,
                  keys |-> << r.prop[1].keyval >>,
                  pivots |-> << r.prop[1].node, r.node >>],
        result |-> r.old, panic |-> r.panic]
  ELSE [root |-> r.node, result |-> r.old, panic |-> r.panic]

\* The nodes Node::upsert calls split() on, from the leaf upwards, each as
\* it is when split() is called: with the new entry (and child) inserted
RECURSIVE split_calls(_, _, _)
split_calls(self, key, value) ==
  LET f == find_index(self, key)
      i == f.i
  IN
  IF f.ok
  THEN << >>
  ELSE IF self.is_leaf
  THEN << [self EXCEPT !.keys = InsertAt(@, i, KeyVal(key, value))] >>
  ELSE IF i >= Len(self.pivots)
  THEN << >>
  ELSE LET r == upsert(self.pivots[i + 1], key, value)
           n1 == [self EXCEPT !.pivots[i + 1] = r.node]
       IN split_calls(self.pivots[i + 1], key, value) \o
          (IF ~r.panic /\ r.prop # None
           THEN << [n1 EXCEPT
                      !.keys = InsertAt(@, i, r.prop[1].keyval),
                      !.pivots = InsertAt(@, i + 1, r.prop[1].node)] >>
           ELSE << >>)

\* BTree::put that drops what the root propagates
BTree_put_drops_split(self, key, value) ==
  LET r == upsert(self, key, value) IN
  [root |-> r.node, result |-> r.old, panic |-> r.panic]

\* BTree::put
BTree_put(self, key, value) ==
  LET r == upsert(self, key, value) IN
  IF r.prop # None
  THEN [root |-> [is_leaf |-> FALSE,
                  keys |-> << r.prop[1].keyval >>,
                  pivots |-> << r.node, r.prop[1].node >>],
        result |-> r.old, panic |-> r.panic]
  ELSE [root |-> r.node, result |-> r.old, panic |-> r.panic]

----------------------------------------------------------------------------
(* Deletion *)

\* Node::remove_most_leftright
RECURSIVE remove_most_leftright(_, _, _)
remove_most_leftright(self, leftmost, force) ==
  IF ~self.is_leaf
  THEN IF Len(self.pivots) = 0
       THEN [node |-> self, kv |-> None, panic |-> TRUE]
       ELSE LET i == IF leftmost THEN 0 ELSE Len(self.pivots) - 1
                r == remove_most_leftright(self.pivots[i + 1], leftmost, force)
            IN [node |-> [self EXCEPT !.pivots[i + 1] = r.node],
                kv |-> r.kv, panic |-> r.panic]
  ELSE IF Len(self.keys) > S \/ force
  THEN IF Len(self.keys) = 0
       THEN [node |-> self, kv |-> None, panic |-> TRUE]
       ELSE IF leftmost
       THEN [node |-> [self EXCEPT !.keys = Tail(@)],
             kv |-> Some(self.keys[1]), panic |-> FALSE]
       ELSE [node |-> [self EXCEPT !.keys = PopBack(@)],
             kv |-> Some(self.keys[Len(self.keys)]), panic |-> FALSE]
  ELSE [node |-> self, kv |-> None, panic |-> FALSE]

\* Node::rebalance, first branch: take the first key of the right sibling
rotate_from_right(self, i) ==
  LET left == self.pivots[i + 1]
      right == self.pivots[i + 2]
  IN
  IF i + 1 >= Len(self.pivots) \/ i >= Len(self.keys) \/ Len(right.keys) = 0
     \/ left.is_leaf # right.is_leaf
     \/ (~left.is_leaf /\ Len(right.pivots) = 0)
  THEN [node |-> self, panic |-> TRUE]
  ELSE LET left2 == [left EXCEPT
                       !.keys = Append(@, self.keys[i + 1]),
                       !.pivots = IF left.is_leaf THEN @
                                  ELSE Append(@, right.pivots[1])]
           right2 == [right EXCEPT
                        !.keys = Tail(@),
                        !.pivots = IF left.is_leaf THEN @ ELSE Tail(@)]
       IN [node |-> [self EXCEPT !.keys[i + 1] = right.keys[1],
                                 !.pivots[i + 1] = left2,
                                 !.pivots[i + 2] = right2],
           panic |-> FALSE]

\* rotate_from_left taking the first key of the left sibling, as the
\* rotation from the right does, instead of its last
rotate_from_left_takes_first(self, i) ==
  LET right == self.pivots[i + 1]
      left == self.pivots[i]
  IN
  IF i = 0 \/ i >= Len(self.pivots) \/ i - 1 >= Len(self.keys)
     \/ Len(left.keys) = 0
     \/ right.is_leaf # left.is_leaf
     \/ (~right.is_leaf /\ Len(left.pivots) = 0)
  THEN [node |-> self, panic |-> TRUE]
  ELSE LET right2 == [right EXCEPT
                        !.keys = << self.keys[i] >> \o @,
                        !.pivots = IF right.is_leaf THEN @
                                   ELSE << left.pivots[Len(left.pivots)] >> \o @]
           left2 == [left EXCEPT
                       !.keys = Tail(@),
                       !.pivots = IF right.is_leaf THEN @ ELSE PopBack(@)]
       IN [node |-> [self EXCEPT !.keys[i] = left.keys[1],
                                 !.pivots[i + 1] = right2,
                                 !.pivots[i] = left2],
           panic |-> FALSE]

\* Node::rebalance, second branch: take the last key of the left sibling
rotate_from_left(self, i) ==
  LET right == self.pivots[i + 1]
      left == self.pivots[i]
  IN
  IF i = 0 \/ i >= Len(self.pivots) \/ i - 1 >= Len(self.keys)
     \/ Len(left.keys) = 0
     \/ right.is_leaf # left.is_leaf
     \/ (~right.is_leaf /\ Len(left.pivots) = 0)
  THEN [node |-> self, panic |-> TRUE]
  ELSE LET right2 == [right EXCEPT
                        !.keys = << self.keys[i] >> \o @,
                        !.pivots = IF right.is_leaf THEN @
                                   ELSE << left.pivots[Len(left.pivots)] >> \o @]
           left2 == [left EXCEPT
                       !.keys = PopBack(@),
                       !.pivots = IF right.is_leaf THEN @ ELSE PopBack(@)]
       IN [node |-> [self EXCEPT !.keys[i] = left.keys[Len(left.keys)],
                                 !.pivots[i + 1] = right2,
                                 !.pivots[i] = left2],
           panic |-> FALSE]

\* merge_with_right leaving the right sibling's children behind
merge_with_right_drops_children(self, i) ==
  IF i >= Len(self.keys) \/ i + 1 >= Len(self.pivots)
  THEN [node |-> self, panic |-> TRUE]
  ELSE LET kv == self.keys[i + 1]
           right == self.pivots[i + 2]
           left == self.pivots[i + 1]
           left2 == [left EXCEPT !.keys = Append(@, kv) \o right.keys]
       IN [node |-> [self EXCEPT
                       !.keys = RemoveAt(@, i),
                       !.pivots = RemoveAt([@ EXCEPT ![i + 1] = left2], i + 1)],
           panic |-> left.is_leaf # right.is_leaf]

\* The merge with the right sibling that appends the separator after the
\* keys of the right sibling
merge_with_right_separator_last(self, i) ==
  IF i >= Len(self.keys) \/ i + 1 >= Len(self.pivots)
  THEN [node |-> self, panic |-> TRUE]
  ELSE LET kv == self.keys[i + 1]
           right == self.pivots[i + 2]
           left == self.pivots[i + 1]
           left2 == [left EXCEPT
                       !.keys = Append(@ \o right.keys, kv),
                       !.pivots = IF left.is_leaf THEN @ ELSE @ \o right.pivots]
       IN [node |-> [self EXCEPT
                       !.keys = RemoveAt(@, i),
                       !.pivots = RemoveAt([@ EXCEPT ![i + 1] = left2], i + 1)],
           panic |-> left.is_leaf # right.is_leaf]

\* Node::rebalance, third branch: merge child i with its right sibling
merge_with_right(self, i) ==
  IF i >= Len(self.keys) \/ i + 1 >= Len(self.pivots)
  THEN [node |-> self, panic |-> TRUE]
  ELSE LET kv == self.keys[i + 1]
           right == self.pivots[i + 2]
           left == self.pivots[i + 1]
           left2 == [left EXCEPT
                       !.keys = Append(@, kv) \o right.keys,
                       !.pivots = IF left.is_leaf THEN @ ELSE @ \o right.pivots]
       IN [node |-> [self EXCEPT
                       !.keys = RemoveAt(@, i),
                       !.pivots = RemoveAt([@ EXCEPT ![i + 1] = left2], i + 1)],
           panic |-> left.is_leaf # right.is_leaf]

\* merge_with_left leaving out the parent's separator
merge_with_left_drops_separator(self, i) ==
  IF i = 0 \/ i - 1 >= Len(self.keys) \/ i >= Len(self.pivots)
  THEN [node |-> self, panic |-> TRUE]
  ELSE LET right == self.pivots[i + 1]
           left == self.pivots[i]
           left2 == [left EXCEPT
                       !.keys = @ \o right.keys,
                       !.pivots = IF left.is_leaf THEN @ ELSE @ \o right.pivots]
       IN [node |-> [self EXCEPT
                       !.keys = RemoveAt(@, i - 1),
                       !.pivots = RemoveAt([@ EXCEPT ![i] = left2], i)],
           panic |-> left.is_leaf # right.is_leaf]

\* merge_with_left removing the parent's entry i, as the merge with the
\* right sibling does, instead of entry i - 1
merge_with_left_index_slip(self, i) ==
  IF i = 0 \/ i >= Len(self.keys) \/ i >= Len(self.pivots)
  THEN [node |-> self, panic |-> TRUE]
  ELSE LET kv == self.keys[i + 1]
           right == self.pivots[i + 1]
           left == self.pivots[i]
           left2 == [left EXCEPT
                       !.keys = Append(@, kv) \o right.keys,
                       !.pivots = IF left.is_leaf THEN @ ELSE @ \o right.pivots]
       IN [node |-> [self EXCEPT
                       !.keys = RemoveAt(@, i),
                       !.pivots = RemoveAt([@ EXCEPT ![i] = left2], i)],
           panic |-> left.is_leaf # right.is_leaf]

\* Node::rebalance, last branch: merge child i into its left sibling
merge_with_left(self, i) ==
  IF i = 0 \/ i - 1 >= Len(self.keys) \/ i >= Len(self.pivots)
  THEN [node |-> self, panic |-> TRUE]
  ELSE LET kv == self.keys[i]
           right == self.pivots[i + 1]
           left == self.pivots[i]
           left2 == [left EXCEPT
                       !.keys = Append(@, kv) \o right.keys,
                       !.pivots = IF left.is_leaf THEN @ ELSE @ \o right.pivots]
       IN [node |-> [self EXCEPT
                       !.keys = RemoveAt(@, i - 1),
                       !.pivots = RemoveAt([@ EXCEPT ![i] = left2], i)],
           panic |-> left.is_leaf # right.is_leaf]

\* rebalance taking a key from a sibling that holds only S entries
rebalance_lends_at_S(self, i) ==
  IF i >= Len(self.pivots)
  THEN [node |-> self, panic |-> TRUE]
  ELSE IF Len(self.pivots[i + 1].keys) >= S
  THEN [node |-> self, panic |-> FALSE]
  ELSE IF i + 1 < Len(self.pivots) /\ Len(self.pivots[i + 2].keys) >= S
  THEN rotate_from_right(self, i)
  ELSE IF i # 0 /\ Len(self.pivots[i].keys) >= S
  THEN rotate_from_left(self, i)
  ELSE IF i + 1 < Len(self.pivots)
  THEN merge_with_right(self, i)
  ELSE merge_with_left(self, i)

\* Node::rebalance that never rotates: an underflowing child is merged with
\* the sibling next to it right away
rebalance_merges_first(self, i) ==
  IF i >= Len(self.pivots)
  THEN [node |-> self, panic |-> TRUE]
  ELSE IF Len(self.pivots[i + 1].keys) >= S
  THEN [node |-> self, panic |-> FALSE]
  ELSE IF i + 1 < Len(self.pivots)
  THEN merge_with_right(self, i)
  ELSE merge_with_left(self, i)

\* Node::rebalance that tries the left sibling before the right one
rebalance_prefers_left(self, i) ==
  IF i >= Len(self.pivots)
  THEN [node |-> self, panic |-> TRUE]
  ELSE IF Len(self.pivots[i + 1].keys) >= S
  THEN [node |-> self, panic |-> FALSE]
  ELSE IF i # 0 /\ Len(self.pivots[i].keys) > S
  THEN rotate_from_left(self, i)
  ELSE IF i + 1 < Len(self.pivots) /\ Len(self.pivots[i + 2].keys) > S
  THEN rotate_from_right(self, i)
  ELSE IF i + 1 < Len(self.pivots)
  THEN merge_with_right(self, i)
  ELSE merge_with_left(self, i)

\* Node::rebalance
rebalance(self, i) ==
  IF i >= Len(self.pivots)
  THEN [node |-> self, panic |-> TRUE]
  ELSE IF Len(self.pivots[i + 1].keys) >= S
  THEN [node |-> self, panic |-> FALSE]
  ELSE IF i + 1 < Len(self.pivots) /\ Len(self.pivots[i + 2].keys) > S
  THEN rotate_from_right(self, i)
  ELSE IF i # 0 /\ Len(self.pivots[i].keys) > S
  THEN rotate_from_left(self, i)
  ELSE IF i + 1 < Len(self.pivots)
  THEN merge_with_right(self, i)
  ELSE merge_with_left(self, i)

\* Node::rebalance_most_leftright
RECURSIVE rebalance_most_leftright(_, _)
rebalance_most_leftright(self, leftmost) ==
  IF self.is_leaf
  THEN [node |-> self, panic |-> FALSE]
  ELSE IF Len(self.pivots) = 0
  THEN [node |-> self, panic |-> TRUE]
  ELSE LET i == IF leftmost THEN 0 ELSE Len(self.pivots) - 1
           r == rebalance_most_leftright(self.pivots[i + 1], leftmost)
           rb == rebalance([self EXCEPT !.pivots[i + 1] = r.node], i)
       IN IF r.panic
          THEN [node |-> self, panic |-> TRUE]
          ELSE rb

\* The forced removal with the sides exchanged: from the right child when i
\* is even, from the left child when i is odd
delete_forced_parity_flipped(self, i) ==
  LET remove_from_left == (i % 2 = 1)
      c == i + (IF remove_from_left THEN 0 ELSE 1)
      rf == remove_most_leftright(self.pivots[c + 1], ~remove_from_left, TRUE)
      rb == rebalance_most_leftright(rf.node, ~remove_from_left)
  IN
  IF c >= Len(self.pivots) \/ i >= Len(self.keys)
  THEN [node |-> self, panic |-> TRUE]
  ELSE IF rf.panic \/ rf.kv = None \/ rb.panic
  THEN [node |-> self, panic |-> TRUE]
  ELSE rebalance([self EXCEPT !.keys[i + 1] = rf.kv[1],
                              !.pivots[c + 1] = rb.node], c)

\* Node::delete, Ok(i) on an internal node when neither neighbouring leaf
\* can give a key away: the forced removal and the rebalancing of its path
delete_forced(self, i) ==
  LET remove_from_left == (i % 2 = 0)
      c == i + (IF remove_from_left THEN 0 ELSE 1)
      rf == remove_most_leftright(self.pivots[c + 1], ~remove_from_left, TRUE)
      rb == rebalance_most_leftright(rf.node, ~remove_from_left)
  IN
  IF c >= Len(self.pivots) \/ i >= Len(self.keys)
  THEN [node |-> self, panic |-> TRUE]
  ELSE IF rf.panic \/ rf.kv = None \/ rb.panic
  THEN [node |-> self, panic |-> TRUE]
  ELSE rebalance([self EXCEPT !.keys[i + 1] = rf.kv[1],
                              !.pivots[c + 1] = rb.node], c)

\* delete_leaf using the insertion point of Err(i) as if it were a match
delete_leaf_err_as_ok(self, f) ==
  IF f.i < Len(self.keys)
  THEN [node |-> [self EXCEPT !.keys = RemoveAt(@, f.i)],
        old |-> Some(self.keys[f.i + 1].value), panic |-> FALSE]
  ELSE [node |-> self, old |-> None, panic |-> FALSE]

\* Node::delete on a leaf: Ok(i) removes entry i, Err(_) removes nothing
delete_leaf(self, f) ==
  IF f.ok
  THEN [node |-> [self EXCEPT !.keys = RemoveAt(@, f.i)],
        old |-> Some(self.keys[f.i + 1].value), panic |-> FALSE]
  ELSE [node |-> self, old |-> None, panic |-> FALSE]

\* delete_internal reading the value of entry i after it has replaced it
delete_internal_reads_late(self, i) ==
  IF i + 1 >= Len(self.pivots)
  THEN [node |-> self, old |-> None, panic |-> TRUE]
  ELSE LET l == remove_most_leftright(self.pivots[i + 1], FALSE, FALSE)
           r == remove_most_leftright(self.pivots[i + 2], TRUE, FALSE)
       IN IF l.panic
          THEN [node |-> self, old |-> None, panic |-> TRUE]
          ELSE IF l.kv # None
          THEN [node |-> [self EXCEPT !.keys[i + 1] = l.kv[1],
                                      !.pivots[i + 1] = l.node],
                old |-> Some(l.kv[1].value), panic |-> FALSE]
          ELSE IF r.panic
          THEN [node |-> self, old |-> None, panic |-> TRUE]
          ELSE IF r.kv # None
          THEN [node |-> [self EXCEPT !.keys[i + 1] = r.kv[1],
                                      !.pivots[i + 2] = r.node],
                old |-> Some(r.kv[1].value), panic |-> FALSE]
          ELSE LET d == delete_forced(self, i)
               IN [node |-> d.node,
                   old |-> Some(self.keys[i + 1].value), panic |-> d.panic]

\* Node::delete, Ok(i), that asks the left child with force = true at once
delete_internal_forces_left(self, i) ==
  IF i + 1 >= Len(self.pivots)
  THEN [node |-> self, old |-> None, panic |-> TRUE]
  ELSE LET l == remove_most_leftright(self.pivots[i + 1], FALSE, TRUE)
       IN IF l.panic \/ l.kv = None
          THEN [node |-> self, old |-> None, panic |-> TRUE]
          ELSE [node |-> [self EXCEPT !.keys[i + 1] = l.kv[1],
                                      !.pivots[i + 1] = l.node],
                old |-> Some(self.keys[i + 1].value), panic |-> FALSE]

\* Node::delete, Ok(i) on an internal node: entry i is replaced by its
\* predecessor or successor
delete_internal(self, i) ==
  IF i + 1 >= Len(self.pivots)
  THEN [node |-> self, old |-> None, panic |-> TRUE]
  ELSE LET old_value == self.keys[i + 1].value
           l == remove_most_leftright(self.pivots[i + 1], FALSE, FALSE)
           r == remove_most_leftright(self.pivots[i + 2], TRUE, FALSE)
       IN IF l.panic
          THEN [node |-> self, old |-> None, panic |-> TRUE]
          ELSE IF l.kv # None
          THEN [node |-> [self EXCEPT !.keys[i + 1] = l.kv[1],
                                      !.pivots[i + 1] = l.node],
                old |-> Some(old_value), panic |-> FALSE]
          ELSE IF r.panic
          THEN [node |-> self, old |-> None, panic |-> TRUE]
          ELSE IF r.kv # None
          THEN [node |-> [self EXCEPT !.keys[i + 1] = r.kv[1],
                                      !.pivots[i + 2] = r.node],
                old |-> Some(old_value), panic |-> FALSE]
          ELSE LET d == delete_forced(self, i)
               IN [node |-> d.node, old |-> Some(old_value), panic |-> d.panic]

\* Node::delete
RECURSIVE delete(_, _)
delete(self, key) ==
  LET f == find_index(self, key)
      i == f.i
  IN
  IF self.is_leaf
  THEN delete_leaf(self, f)
  ELSE IF f.ok
  THEN delete_internal(self, i)
  ELSE IF i >= Len(self.pivots)
  THEN [node |-> self, old |-> None, panic |-> TRUE]
  ELSE LET r == delete(self.pivots[i + 1], key)
           rb == rebalance([self EXCEPT !.pivots[i + 1] = r.node], i)
       IN IF r.panic
          THEN [node |-> self, old |-> r.old, panic |-> TRUE]
          ELSE [node |-> rb.node, old |-> r.old, panic |-> rb.panic]

\* The internal node in which Node::delete finds the key, Ok(i), and the
\* index i; asked only for keys that an internal node holds
RECURSIVE match_at(_, _)
match_at(self, key) ==
  LET f == find_index(self, key) IN
  IF f.ok \/ self.is_leaf
  THEN [node |-> self, i |-> f.i]
  ELSE match_at(self.pivots[f.i + 1], key)

\* The leaf that Node::remove_most_leftright descends to
RECURSIVE most_leaf(_, _)
most_leaf(self, leftmost) ==
  IF self.is_leaf
  THEN self
  ELSE most_leaf(self.pivots[IF leftmost THEN 1 ELSE Len(self.pivots)],
                 leftmost)

\* The calls of rebalance() that Node::rebalance_most_leftright makes, from
\* the parent of the leaf upwards: the receiver as it is when rebalance() is
\* called, and the index it is called with
RECURSIVE rebalance_most_calls(_, _)
rebalance_most_calls(self, leftmost) ==
  IF self.is_leaf \/ Len(self.pivots) = 0
  THEN << >>
  ELSE LET i == IF leftmost THEN 0 ELSE Len(self.pivots) - 1
           r == rebalance_most_leftright(self.pivots[i + 1], leftmost)
       IN rebalance_most_calls(self.pivots[i + 1], leftmost) \o
          (IF r.panic
           THEN << >>
           ELSE << [node |-> [self EXCEPT !.pivots[i + 1] = r.node],
                    i |-> i, from |-> "donor"] >>)

\* The calls of rebalance() of the forced removal of Node::delete, Ok(i):
\* those of child.rebalance_most_leftright, then self.rebalance
delete_forced_calls(self, i) ==
  LET remove_from_left == (i % 2 = 0)
      c == i + (IF remove_from_left THEN 0 ELSE 1)
      rf == remove_most_leftright(self.pivots[c + 1], ~remove_from_left, TRUE)
      rb == rebalance_most_leftright(rf.node, ~remove_from_left)
  IN
  IF c >= Len(self.pivots) \/ i >= Len(self.keys)
  THEN << >>
  ELSE IF rf.panic \/ rf.kv = None
  THEN << >>
  ELSE rebalance_most_calls(rf.node, ~remove_from_left) \o
       (IF rb.panic
        THEN << >>
        ELSE << [node |-> [self EXCEPT !.keys[i + 1] = rf.kv[1],
                                       !.pivots[c + 1] = rb.node],
                 i |-> c, from |-> "match"] >>)

\* The calls of rebalance() that Node::delete makes, in the order it makes
\* them
RECURSIVE rebalance_calls(_, _)
rebalance_calls(self, key) ==
  LET f == find_index(self, key)
      i == f.i
  IN
  IF self.is_leaf
  THEN << >>
  ELSE IF f.ok
  THEN IF i + 1 >= Len(self.pivots)
       THEN << >>
       ELSE LET l == remove_most_leftright(self.pivots[i + 1], FALSE, FALSE)
                r == remove_most_leftright(self.pivots[i + 2], TRUE, FALSE)
            IN IF l.panic \/ l.kv # None \/ r.panic \/ r.kv # None
               THEN << >>
               ELSE delete_forced_calls(self, i)
  ELSE IF i >= Len(self.pivots)
  THEN << >>
  ELSE LET r == delete(self.pivots[i + 1], key)
       IN rebalance_calls(self.pivots[i + 1], key) \o
          (IF r.panic
           THEN << >>
           ELSE << [node |-> [self EXCEPT !.pivots[i + 1] = r.node],
                    i |-> i, from |-> "path"] >>)

\* The points of a deletion in a child, seen from its parent: the parent as
\* it is at each of them, with the given entries and with the child's state
\* at that point as child number slot
Lift(points, parent, keys, slot) ==
  [j \in 1..Len(points) |->
     [points[j] EXCEPT
        !.tree = [parent EXCEPT !.keys = keys, !.pivots[slot] = points[j].tree]]]

\* The points at which Node::rebalance_most_leftright calls rebalance(): the
\* subtree of self as it is then, the receiver of the call and its index
RECURSIVE rebalance_most_points(_, _)
rebalance_most_points(self, leftmost) ==
  IF self.is_leaf \/ Len(self.pivots) = 0
  THEN << >>
  ELSE LET i == IF leftmost THEN 0 ELSE Len(self.pivots) - 1
           r == rebalance_most_leftright(self.pivots[i + 1], leftmost)
           at_call == [self EXCEPT !.pivots[i + 1] = r.node]
       IN Lift(rebalance_most_points(self.pivots[i + 1], leftmost),
               self, self.keys, i + 1) \o
          (IF r.panic
           THEN << >>
           ELSE << [tree |-> at_call, node |-> at_call, i |-> i] >>)

\* The points at which the forced removal of Node::delete, Ok(i), calls
\* rebalance(): entry i is replaced before the first of them
delete_forced_points(self, i) ==
  LET remove_from_left == (i % 2 = 0)
      c == i + (IF remove_from_left THEN 0 ELSE 1)
      rf == remove_most_leftright(self.pivots[c + 1], ~remove_from_left, TRUE)
      rb == rebalance_most_leftright(rf.node, ~remove_from_left)
  IN
  IF c >= Len(self.pivots) \/ i >= Len(self.keys)
  THEN << >>
  ELSE IF rf.panic \/ rf.kv = None
  THEN << >>
  ELSE LET keys == [self.keys EXCEPT ![i + 1] = rf.kv[1]]
           at_call == [self EXCEPT !.keys = keys, !.pivots[c + 1] = rb.node]
       IN Lift(rebalance_most_points(rf.node, ~remove_from_left),
               self, keys, c + 1) \o
          (IF rb.panic
           THEN << >>
           ELSE << [tree |-> at_call, node |-> at_call, i |-> c] >>)

\* The points at which Node::delete calls rebalance(), in the order it
\* reaches them
RECURSIVE delete_points(_, _)
delete_points(self, key) ==
  LET f == find_index(self, key)
      i == f.i
  IN
  IF self.is_leaf
  THEN << >>
  ELSE IF f.ok
  THEN IF i + 1 >= Len(self.pivots)
       THEN << >>
       ELSE LET l == remove_most_leftright(self.pivots[i + 1], FALSE, FALSE)
                r == remove_most_leftright(self.pivots[i + 2], TRUE, FALSE)
            IN IF l.panic \/ l.kv # None \/ r.panic \/ r.kv # None
               THEN << >>
               ELSE delete_forced_points(self, i)
  ELSE IF i >= Len(self.pivots)
  THEN << >>
  ELSE LET r == delete(self.pivots[i + 1], key)
           at_call == [self EXCEPT !.pivots[i + 1] = r.node]
       IN Lift(delete_points(self.pivots[i + 1], key),
               self, self.keys, i + 1) \o
          (IF r.panic
           THEN << >>
           ELSE << [tree |-> at_call, node |-> at_call, i |-> i] >>)

\* BTree::delete that keeps a root left without entries
BTree_delete_keeps_root(self, key) ==
  LET r == delete(self, key) IN
  [root |-> r.node, result |-> r.old, panic |-> r.panic]

\* BTree::delete that takes the first child of a root of one entry as the
\* new root
BTree_delete_demotes_early(self, key) ==
  LET r == delete(self, key) IN
  IF ~r.panic /\ ~r.node.is_leaf /\ Len(r.node.pivots) <= 2
  THEN [root |-> r.node.pivots[1], result |-> r.old, panic |-> FALSE]
  ELSE [root |-> r.node, result |-> r.old, panic |-> r.panic]

\* BTree::delete
BTree_delete(self, key) ==
  LET r == delete(self, key) IN
  IF ~r.panic /\ ~r.node.is_leaf /\ Len(r.node.pivots) = 1
  THEN [root |-> r.node.pivots[1], result |-> r.old, panic |-> FALSE]
  ELSE [root |-> r.node, result |-> r.old, panic |-> r.panic]

----------------------------------------------------------------------------
(* The tree as a state machine: one action per mutating call *)

\* BTree::new
Init ==
  /\ S \in Orders
  /\ root = NewNode(TRUE)
  /\ expecteds = [k \in Keys |-> None]
  /\ op = [kind |-> "new", key |-> 0, at |-> "none", depth |-> 0, ret |-> None]
  /\ panicked = FALSE

\* btree.put(key, value)
Put(key, value) ==
  /\ ~panicked
  /\ LET r == BTree_put(root, key, value) IN
     /\ panicked' = r.panic
     /\ root' = IF r.panic THEN root ELSE r.root
     /\ op' = [kind |-> "put", key |-> key, at |-> where(root, key),
               depth |-> level(root, 0).value, ret |-> r.result]
  /\ expecteds' = [expecteds EXCEPT ![key] = Some(value)]
  /\ UNCHANGED S

\* btree.delete(&key)
Delete(key) ==
  /\ ~panicked
  /\ LET r == BTree_delete(root, key) IN
     /\ panicked' = r.panic
     /\ root' = IF r.panic THEN root ELSE r.root
     /\ op' = [kind |-> "delete", key |-> key, at |-> where(root, key),
               depth |-> level(root, 0).value, ret |-> r.result]
  /\ expecteds' = [expecteds EXCEPT ![key] = None]
  /\ UNCHANGED S

\* Any sequence of put(key, key) and delete(key) over Keys
Next ==
  \/ \E key \in Keys : Put(key, key)
  \/ \E key \in Keys : Delete(key)

Spec == Init /\ [][Next]_vars

\* Any sequence of put(key, value) and delete(key) over KeysKV and Vals
NextKV ==
  \/ \E key \in KeysKV, value \in Vals : Put(key, value)
  \/ \E key \in KeysKV : Delete(key)

SpecKV == Init /\ [][NextKV]_vars

\* basic_structure_change: BTree::<_, _, 2>::new()
InitWalk ==
  /\ S = WalkS
  /\ root = NewNode(TRUE)
  /\ expecteds = [k \in WalkKeys |-> None]
  /\ op = [kind |-> "new", key |-> 0, at |-> "none", depth |-> 0, ret |-> None]
  /\ panicked = FALSE

\* The puts of the walk are over once every key is in or a delete was made
WalkFilled == op.kind = "delete" \/ size(root) = WalkLastKey + 1

\* basic_structure_change: put(i, i) for i = 0, 1, .., WalkLastKey in this
\* order (the next key is the number of keys put so far), then deletes of
\* keys the tree holds
NextWalk ==
  \/ /\ ~WalkFilled
     /\ Put(size(root), size(root))
  \/ \E key \in WalkKeys :
       /\ WalkFilled
       /\ size(root) > WalkLastKey + 1 - MaxWalkDeletes
       /\ expecteds[key] # None
       /\ Delete(key)

SpecWalk == InitWalk /\ [][NextWalk]_vars

----------------------------------------------------------------------------
(* What the claims speak of *)

\* Every node strictly below the given one
RECURSIVE Descendants(_)
Descendants(node) ==
  UNION {{node.pivots[j]} \cup Descendants(node.pivots[j]) :
           j \in 1..Len(node.pivots)}

\* Every node of the tree
AllNodes == {root} \cup Descendants(root)

\* The keys stored anywhere in the subtree of a node
RECURSIVE SubtreeKeys(_)
SubtreeKeys(node) ==
  {node.keys[j].key : j \in 1..Len(node.keys)}
    \cup UNION {SubtreeKeys(node.pivots[j]) : j \in 1..Len(node.pivots)}

\* The lengths of the paths from a node at depth d to the leaves below it
RECURSIVE LeafDepths(_, _)
LeafDepths(node, d) ==
  IF node.is_leaf THEN {d}
  ELSE UNION {LeafDepths(node.pivots[j], d + 1) : j \in 1..Len(node.pivots)}

\* btree.level(), btree.size() and btree.get(key)
Level == level(root, 0)
Size == size(root)
Get(key) == lookup(root, key)

\* The keys the reference map holds
Present == {k \in Keys : expecteds[k] # None}

\* The keys of the entries of a node, in their order
KeysOf(node) == [j \in 1..Len(node.keys) |-> node.keys[j].key]

\* A subtree without the values of its entries: the shape, the keys of
\* every node and the children of every node
RECURSIVE Skeleton(_)
Skeleton(node) ==
  [is_leaf |-> node.is_leaf,
   keys |-> KeysOf(node),
   pivots |-> [j \in 1..Len(node.pivots) |-> Skeleton(node.pivots[j])]]

\* C1: every non-root node holds between S and 2S entries, a leaf root
\* between 0 and 2S, an internal root between 1 and 2S.
C1_Occupancy ==
  /\ \A n \in Descendants(root) : Len(n.keys) >= S /\ Len(n.keys) <= 2 * S
  /\ Len(root.keys) <= 2 * S
  /\ Len(root.keys) >= (IF root.is_leaf THEN 0 ELSE 1)

\* Reached for C1: a delete that returned a value has left a three-level
\* tree in which every non-root node holds exactly S entries.
C1_Witness ==
  /\ op.kind = "delete" /\ op.ret # None
  /\ op.depth = 3 /\ Level.value = 3
  /\ \A n \in Descendants(root) : Len(n.keys) = S

\* C2: the entries of every node are strictly ascending by key, every key
\* in the subtree of child i is smaller than entry i and greater than entry
\* i - 1 of its parent, and no key is stored twice.
C2_Ordering ==
  /\ \A n \in AllNodes :
       /\ \A j \in 1..(Len(n.keys) - 1) : n.keys[j].key < n.keys[j + 1].key
       /\ \A i \in 0..(Len(n.pivots) - 1) :
            \A k \in SubtreeKeys(n.pivots[i + 1]) :
              /\ i < Len(n.keys) => k < n.keys[i + 1].key
              /\ i > 0 /\ i - 1 < Len(n.keys) => k > n.keys[i].key
  /\ Size = Cardinality(SubtreeKeys(root))

\* Reached for C2: in a tree of order 2, a delete has replaced an entry of
\* an internal node, which is still an internal node afterwards.
C2_Witness ==
  /\ S = 2
  /\ op.kind = "delete" /\ op.at = "internal" /\ op.ret # None
  /\ ~root.is_leaf

\* C3: every root-to-leaf path has the length level() computes along the
\* leftmost children, a leaf counting 1.
C3_Balance ==
  /\ ~Level.panic
  /\ LeafDepths(root, 1) = {Level.value}

\* Reached for C3: a put has split the root of a two-level tree, which has
\* three levels now.
C3_Witness ==
  /\ op.kind = "put" /\ op.depth = 2
  /\ Level.value = 3

\* C4: every internal node has one child more than it has entries, and a
\* leaf has no children.
C4_ChildCount ==
  \A n \in AllNodes :
    IF n.is_leaf THEN Len(n.pivots) = 0
    ELSE Len(n.pivots) = Len(n.keys) + 1

\* Reached for C4: a delete has merged the two internal children of the
\* root of a three-level tree; the merged node is the root now, with 2S
\* entries and 2S + 1 children.
C4_Witness ==
  /\ op.kind = "delete" /\ op.depth = 3 /\ Level.value = 2
  /\ Len(root.keys) = 2 * S /\ Len(root.pivots) = 2 * S + 1

\* C5: get(k) returns the value of the most recent put(k, _) that no
\* delete(k) followed, and nothing for every other key.
C5_LookupAgrees ==
  \A k \in Keys : Get(k) = [value |-> expecteds[k], panic |-> FALSE]

\* Reached for C5: a key has been deleted from a leaf of a three-level tree
\* that has two levels now, and the six or more keys left are all found.
C5_Witness ==
  /\ op.kind = "delete" /\ op.at = "leaf" /\ op.depth = 3 /\ Level.value = 2
  /\ Cardinality(Present) >= 6
  /\ \A k \in Present : Get(k).value = Some(k)

\* C6: put(k, v) returns the value stored for k before it, nothing when k
\* was not stored, and get(k) returns v afterwards; so the second of two
\* puts of k in a row returns the value of the first.
C6_Upsert ==
  [][op'.kind = "put" =>
       /\ op'.ret = expecteds[op'.key]
       /\ lookup(root', op'.key) = [value |-> expecteds'[op'.key],
                                    panic |-> FALSE]
       /\ (op.kind = "put" /\ op.key = op'.key) =>
            (op'.ret # None /\ op'.ret = Get(op.key).value)]_vars

\* Reached for C6: a put has replaced the value of an entry of an internal
\* node by a different one and returned the old one.
C6_Witness ==
  /\ op.kind = "put" /\ op.at = "internal"
  /\ op.ret # None /\ op.ret # Get(op.key).value

\* C7: delete(k) of a key the tree holds returns its value, makes size()
\* one less and never negative, and leaves k absent: get(k) and a second
\* delete(k) return nothing.
C7_DeletePresent ==
  [][(op'.kind = "delete" /\ expecteds[op'.key] # None) =>
       /\ op'.ret = expecteds[op'.key]
       /\ size(root') = size(root) - 1
       /\ size(root') >= 0
       /\ lookup(root', op'.key).value = None
       /\ BTree_delete(root', op'.key).result = None]_vars

\* Reached for C7: a delete has removed a key held by an internal node of a
\* three-level tree and returned its value.
C7_Witness ==
  /\ op.kind = "delete" /\ op.at = "internal" /\ op.depth = 3
  /\ op.ret = Some(op.key)
  /\ Get(op.key).value = None

\* C8: delete(k) of a key the tree does not hold returns nothing and leaves
\* size() as it was.
C8_DeleteAbsent ==
  [][(op'.kind = "delete" /\ expecteds[op'.key] = None) =>
       /\ op'.ret = None
       /\ size(root') = size(root)]_vars

\* Reached for C8: a delete of a key that a three-level tree does not hold
\* has returned nothing.
C8_Witness ==
  /\ op.kind = "delete" /\ op.at = "none" /\ op.depth = 3
  /\ op.ret = None /\ Level.value = 3

\* C9: size() is the number of keys put and not deleted since, which is the
\* number of distinct keys the tree holds.
C9_SizeAccounting ==
  /\ Size = Cardinality(Present)
  /\ Size = Cardinality(SubtreeKeys(root))

\* Reached for C9: a put of a key that was stored already, in a tree that
\* holds every key; the number of puts made exceeds size().
C9_Witness ==
  /\ op.kind = "put" /\ op.ret # None
  /\ Size = Cardinality(Keys)

\* C10: no put or delete panics, and get, size and level would not panic
\* either in the state they leave.
C10_Total ==
  /\ ~panicked
  /\ ~Level.panic
  /\ \A k \in Keys : ~Get(k).panic

\* Reached for C10: a delete of a key held by an internal node of a
\* three-level tree has taken the level away, which only the forced removal
\* and the rebalancing of its path up to the root can do.
C10_Witness ==
  /\ ~panicked
  /\ op.kind = "delete" /\ op.at = "internal"
  /\ op.depth = 3 /\ Level.value = 2

\* C11: in the walk with S = 2, after the puts of 0, 1, 2, 3 the root is a
\* leaf of four entries and the depth is 1; after the put of 4 the root is
\* internal with the single entry 2 and the two leaf children 0, 1 and 3, 4,
\* and the depth is 2.
C11_FirstSplit ==
  /\ ~panicked
  /\ (op.kind = "put" /\ op.key = 3) =>
       /\ root.is_leaf
       /\ KeysOf(root) = << 0, 1, 2, 3 >>
       /\ Level = [value |-> 1, panic |-> FALSE]
  /\ (op.kind = "put" /\ op.key = 4) =>
       /\ ~root.is_leaf
       /\ KeysOf(root) = << 2 >>
       /\ Len(root.pivots) = 2
       /\ root.pivots[1].is_leaf /\ KeysOf(root.pivots[1]) = << 0, 1 >>
       /\ root.pivots[2].is_leaf /\ KeysOf(root.pivots[2]) = << 3, 4 >>
       /\ Level = [value |-> 2, panic |-> FALSE]

\* Reached for C11: the put of 4 found a one-level tree of order 2 without
\* the key and left a two-level one.
C11_Witness ==
  /\ S = 2
  /\ op.kind = "put" /\ op.key = 4 /\ op.ret = None
  /\ op.depth = 1 /\ Level.value = 2

\* C12: in the walk with S = 2, after the puts of 0..16 the tree holds 17
\* keys in three levels under a root of one entry; delete(0) on that tree
\* returns 0 and leaves two levels, the leaf 1, 2, 3, 4 as the leftmost child
\* of the root, 5 as the first entry of the root, and every structural
\* invariant intact.
C12_DeleteFirstKey ==
  /\ ~panicked
  /\ (op.kind = "put" /\ op.key = 16) =>
       /\ Size = 17
       /\ Level = [value |-> 3, panic |-> FALSE]
       /\ Len(root.keys) = 1
  /\ (op.kind = "delete" /\ op.key = 0 /\ Size = 16) =>
       /\ op.ret = Some(0)
       /\ op.depth = 3
       /\ Level = [value |-> 2, panic |-> FALSE]
       /\ root.pivots[1].is_leaf
       /\ KeysOf(root.pivots[1]) = << 1, 2, 3, 4 >>
       /\ root.keys[1].key = 5
       /\ C1_Occupancy /\ C2_Ordering /\ C3_Balance /\ C4_ChildCount

\* Reached for C12: delete(0) was the first delete after the 17 puts, found
\* the key in a leaf of the three-level tree and left 16 keys in two levels.
C12_Witness ==
  /\ op.kind = "delete" /\ op.key = 0 /\ op.at = "leaf"
  /\ Size = 16 /\ op.depth = 3 /\ Level.value = 2

\* C13: a put leaves the depth as it was or makes it one greater; it is one
\* greater exactly when the upsert on the root propagated a split, and then
\* the new root is internal with the promoted median as its single entry and
\* exactly two children, the old root and its new right sibling, of S
\* entries each. A delete never makes the depth greater.
C13_HeightGrowth ==
  [][/\ op'.kind = "put" =>
          \A r \in {upsert(root, op'.key, expecteds'[op'.key][1])},
             before \in {level(root, 0).value},
             after \in {level(root', 0).value} :
             /\ after = before \/ after = before + 1
             /\ after = before + 1 <=> r.prop # None
             /\ r.prop # None =>
                  /\ ~root'.is_leaf
                  /\ root'.keys = << r.prop[1].keyval >>
                  /\ root'.pivots = << r.node, r.prop[1].node >>
                  /\ root'.pivots[1].is_leaf = root.is_leaf
                  /\ root'.pivots[2].is_leaf = root.is_leaf
                  /\ Len(root'.pivots[1].keys) = S
                  /\ Len(root'.pivots[2].keys) = S
                  /\ SubtreeKeys(root') = SubtreeKeys(root) \cup {op'.key}
     /\ op'.kind = "delete" =>
          level(root', 0).value <= level(root, 0).value]_vars

\* Reached for C13: a put of a new key has split the internal root of a
\* two-level tree; the root of the three-level tree has one entry and two
\* internal children.
C13_Witness ==
  /\ op.kind = "put" /\ op.ret = None /\ op.depth = 2
  /\ Level.value = 3
  /\ Len(root.keys) = 1 /\ Len(root.pivots) = 2
  /\ ~root.pivots[1].is_leaf /\ ~root.pivots[2].is_leaf

\* C14: a delete leaves the depth as it was or makes it one smaller; it is
\* one smaller exactly when the deletion below has left the root internal
\* with no entry and a single child, and then that child is the new root;
\* the new root is never an internal node without entries. A put never makes
\* the depth smaller.
C14_HeightShrink ==
  [][/\ op'.kind = "delete" =>
          \A r \in {delete(root, op'.key)},
             before \in {level(root, 0).value},
             after \in {level(root', 0).value} :
             LET emptied == /\ ~r.node.is_leaf
                            /\ Len(r.node.keys) = 0
                            /\ Len(r.node.pivots) = 1
             IN
             /\ after = before \/ after = before - 1
             /\ after = before - 1 <=> emptied
             /\ emptied => root' = r.node.pivots[1]
             /\ ~emptied => root' = r.node
             /\ ~(~root'.is_leaf /\ Len(root'.keys) = 0)
     /\ op'.kind = "put" =>
          level(root', 0).value >= level(root, 0).value]_vars

\* Reached for C14: a delete has merged the two leaves of a two-level tree
\* whose root had one entry; the merged leaf of 2S entries is the root.
C14_Witness ==
  /\ op.kind = "delete" /\ op.ret # None /\ op.depth = 2
  /\ Level.value = 1
  /\ root.is_leaf /\ Len(root.keys) = 2 * S

\* C15: during a put, a node is split exactly when the insertion into its
\* own entries has brought it to 2S + 1 entries: entry S goes up as the
\* median, the node keeps exactly the S entries below it and the new right
\* sibling gets exactly the S entries above it; of an internal node the left
\* keeps the children 0..S and the right gets the children S+1..2S+1, S + 1
\* each. A node with at most 2S entries after the insertion is left as it is
\* and propagates nothing, and a node gets an entry from below only when its
\* child was split.
C15_Split ==
  [][op'.kind = "put" =>
       \A calls \in {split_calls(root, op'.key, expecteds'[op'.key][1])},
          top \in {upsert(root, op'.key, expecteds'[op'.key][1])} :
          /\ expecteds[op'.key] = None <=> Len(calls) >= 1
          /\ \A j \in 1..Len(calls) :
               \A n \in {calls[j]} : \A sp \in {split(n)} :
                  /\ ~sp.panic
                  /\ Len(n.keys) <= 2 * S + 1
                  /\ j = 1 <=> n.is_leaf
                  /\ j < Len(calls) => sp.prop # None
                  /\ j = Len(calls) => sp.prop = top.prop
                  /\ sp.prop # None <=> Len(n.keys) = 2 * S + 1
                  /\ sp.prop = None => sp.node = n
                  /\ sp.prop # None =>
                       LET right == sp.prop[1].node IN
                       /\ sp.prop[1].keyval = n.keys[S + 1]
                       /\ sp.node.keys = SubSeq(n.keys, 1, S)
                       /\ right.keys = SubSeq(n.keys, S + 2, 2 * S + 1)
                       /\ Len(sp.node.keys) = S /\ Len(right.keys) = S
                       /\ sp.node.is_leaf = n.is_leaf
                       /\ right.is_leaf = n.is_leaf
                       /\ n.is_leaf =>
                            sp.node.pivots = << >> /\ right.pivots = << >>
                       /\ ~n.is_leaf =>
                            /\ sp.node.pivots = SubSeq(n.pivots, 1, S + 1)
                            /\ right.pivots =
                                 SubSeq(n.pivots, S + 2, 2 * S + 2)
                            /\ Len(sp.node.pivots) = S + 1
                            /\ Len(right.pivots) = S + 1
          /\ Len(calls) = 0 => top.prop = None]_vars

\* Reached for C15: a put has split a leaf and then the internal root above
\* it; both halves of the old root are internal nodes of S entries and S + 1
\* children.
C15_Witness ==
  /\ op.kind = "put" /\ op.depth = 2 /\ Level.value = 3
  /\ \A j \in 1..2 :
       /\ Len(root.pivots[j].keys) = S
       /\ Len(root.pivots[j].pivots) = S + 1

\* A subtree with the given value in the entry of the given key and every
\* other entry, node and child as it is
RECURSIVE WithValue(_, _, _)
WithValue(node, key, value) ==
  [node EXCEPT
     !.keys = [j \in 1..Len(node.keys) |->
                 IF node.keys[j].key = key THEN KeyVal(key, value)
                 ELSE node.keys[j]],
     !.pivots = [j \in 1..Len(node.pivots) |->
                   WithValue(node.pivots[j], key, value)]]

\* C16: a put of a key the tree holds changes the value of that one entry
\* and nothing else: the shape, the keys and the children of every node, the
\* values of all other keys, size() and the depth stay as they were, and no
\* node is split.
C16_Overwrite ==
  [][(op'.kind = "put" /\ expecteds[op'.key] # None) =>
       \A k \in {op'.key}, v \in {expecteds'[op'.key][1]} :
         /\ root' = WithValue(root, k, v)
         /\ Skeleton(root') = Skeleton(root)
         /\ lookup(root', k).value = Some(v)
         /\ size(root') = size(root)
         /\ level(root', 0) = level(root, 0)
         /\ upsert(root, k, v).prop = None
         /\ split_calls(root, k, v) = << >>]_vars

\* Reached for C16: a put has replaced the value of an entry of a leaf of a
\* two-level tree by a different one.
C16_Witness ==
  /\ op.kind = "put" /\ op.at = "leaf" /\ op.depth = 2
  /\ op.ret # None /\ op.ret # Get(op.key).value
  /\ Level.value = 2

\* What a parent p and the result q of rebalance(i) on it have in common
\* when only the children a, b (a + 1 = b, counted from 0) and the entry
\* between them may differ
SameBut(p, q, a) ==
  /\ q.is_leaf = p.is_leaf
  /\ Len(q.keys) = Len(p.keys) /\ Len(q.pivots) = Len(p.pivots)
  /\ \A e \in 1..Len(p.keys) : e # a + 1 => q.keys[e] = p.keys[e]
  /\ \A c \in 1..Len(p.pivots) :
       (c # a + 1 /\ c # a + 2) => q.pivots[c] = p.pivots[c]

\* q is p after one entry (and, between internal nodes, one child) went
\* from child a + 1 through the separator to the end of child a
RotatedFromRight(p, q, a) ==
  LET l == p.pivots[a + 1]
      r == p.pivots[a + 2]
  IN /\ SameBut(p, q, a)
     /\ q.pivots[a + 1].keys = Append(l.keys, p.keys[a + 1])
     /\ q.keys[a + 1] = Head(r.keys)
     /\ q.pivots[a + 2].keys = Tail(r.keys)
     /\ q.pivots[a + 1].is_leaf = l.is_leaf
     /\ q.pivots[a + 2].is_leaf = r.is_leaf
     /\ IF l.is_leaf
        THEN q.pivots[a + 1].pivots = << >> /\ q.pivots[a + 2].pivots = << >>
        ELSE /\ q.pivots[a + 1].pivots = Append(l.pivots, Head(r.pivots))
             /\ q.pivots[a + 2].pivots = Tail(r.pivots)

\* q is p after one entry (and, between internal nodes, one child) went
\* from the end of child a through the separator to the front of child a + 1
RotatedFromLeft(p, q, a) ==
  LET l == p.pivots[a + 1]
      r == p.pivots[a + 2]
  IN /\ SameBut(p, q, a)
     /\ q.pivots[a + 2].keys = << p.keys[a + 1] >> \o r.keys
     /\ q.keys[a + 1] = l.keys[Len(l.keys)]
     /\ q.pivots[a + 1].keys = SubSeq(l.keys, 1, Len(l.keys) - 1)
     /\ q.pivots[a + 1].is_leaf = l.is_leaf
     /\ q.pivots[a + 2].is_leaf = r.is_leaf
     /\ IF l.is_leaf
        THEN q.pivots[a + 1].pivots = << >> /\ q.pivots[a + 2].pivots = << >>
        ELSE /\ q.pivots[a + 2].pivots =
                  << l.pivots[Len(l.pivots)] >> \o r.pivots
             /\ q.pivots[a + 1].pivots =
                  SubSeq(l.pivots, 1, Len(l.pivots) - 1)

\* q is p after the children a and a + 1 and the separator between them
\* became the one child a, p losing that entry and one child
Merged(p, q, a) ==
  LET l == p.pivots[a + 1]
      r == p.pivots[a + 2]
  IN /\ q.is_leaf = p.is_leaf
     /\ Len(q.keys) = Len(p.keys) - 1 /\ Len(q.pivots) = Len(p.pivots) - 1
     /\ \A e \in 1..Len(q.keys) :
          q.keys[e] = p.keys[IF e < a + 1 THEN e ELSE e + 1]
     /\ \A c \in 1..Len(q.pivots) :
          c # a + 1 => q.pivots[c] = p.pivots[IF c < a + 1 THEN c ELSE c + 1]
     /\ q.pivots[a + 1].is_leaf = l.is_leaf
     /\ q.pivots[a + 1].keys = l.keys \o << p.keys[a + 1] >> \o r.keys
     /\ q.pivots[a + 1].pivots = l.pivots \o r.pivots

\* C17: every rebalance(i) a delete makes does nothing when child i holds at
\* least S entries; otherwise it rotates from the right sibling i + 1 if
\* there is one and it holds more than S entries; otherwise from the left
\* sibling i - 1 if there is one and it holds more than S; otherwise it
\* merges child i with the right sibling if there is one, and into the left
\* sibling if not. A rotation moves one entry (and, between internal nodes,
\* one child) through the separator and leaves the parent's numbers of
\* entries and children as they were; a merge takes one entry and one child
\* from the parent.
C17_RebalanceCases ==
  [][op'.kind = "delete" =>
       \A calls \in {rebalance_calls(root, op'.key)} :
         \A j \in 1..Len(calls) :
           \A p \in {calls[j].node}, i \in {calls[j].i} :
             \A rb \in {rebalance(p, i)} :
               LET q == rb.node
                   np == Len(p.pivots)
                   entries(c) == Len(p.pivots[c + 1].keys)
               IN /\ ~rb.panic
                  /\ i < np
                  /\ IF entries(i) >= S
                     THEN q = p
                     ELSE IF i + 1 < np /\ entries(i + 1) > S
                     THEN RotatedFromRight(p, q, i)
                     ELSE IF i > 0 /\ entries(i - 1) > S
                     THEN RotatedFromLeft(p, q, i - 1)
                     ELSE IF i + 1 < np
                     THEN Merged(p, q, i)
                     ELSE i > 0 /\ Merged(p, q, i - 1)]_vars

\* Reached for C17: a delete has taken the smallest key from the leftmost
\* leaf of a three-level tree that still has three levels, and the leftmost
\* leaf holds 2S entries now: it was merged with its sibling, and the
\* internal node above, left short of an entry, took one and a child from
\* its sibling through the root.
C17_Witness ==
  /\ op.kind = "delete" /\ op.at = "leaf" /\ op.ret # None
  /\ op.depth = 3 /\ Level.value = 3
  /\ \A k \in SubtreeKeys(root) : op.key < k
  /\ Len(root.pivots[1].pivots[1].keys) = 2 * S

\* C18: when delete(k) finds k as entry i of an internal node, the entry is
\* replaced by its in-order predecessor, the last entry of the rightmost
\* leaf under child i, if that leaf holds more than S entries; otherwise by
\* its in-order successor, the first entry of the leftmost leaf under child
\* i + 1, if that leaf holds more than S; otherwise the predecessor (i even)
\* or the successor (i odd) is taken by force, and rebalance is called at
\* every internal node of the donor's path from the bottom up and then at
\* the matching node with the index of the donor child. In each case the
\* value that entry i held is returned.
C18_Replacement ==
  [][(op'.kind = "delete" /\ op'.at = "internal") =>
       \A m \in {match_at(root, op'.key)} :
         \A d \in {delete_internal(m.node, m.i)} :
           LET p == m.node
               i == m.i
               q == d.node
               left == p.pivots[i + 1]
               right == p.pivots[i + 2]
               pl == most_leaf(left, FALSE)
               sl == most_leaf(right, TRUE)
               pred == pl.keys[Len(pl.keys)]
               succ == sl.keys[1]
           IN /\ ~p.is_leaf /\ p.keys[i + 1].key = op'.key
              /\ ~d.panic
              /\ d.old = Some(p.keys[i + 1].value)
              /\ op'.ret = d.old
              /\ \A k \in SubtreeKeys(left) : k <= pred.key
              /\ \A k \in SubtreeKeys(right) : k >= succ.key
              /\ SubtreeKeys(q) = SubtreeKeys(p) \ {op'.key}
              /\ IF Len(pl.keys) > S
                 THEN /\ q.keys = [p.keys EXCEPT ![i + 1] = pred]
                      /\ Len(q.pivots) = Len(p.pivots)
                      /\ \A c \in 1..Len(p.pivots) :
                           c # i + 1 => q.pivots[c] = p.pivots[c]
                      /\ most_leaf(q.pivots[i + 1], FALSE).keys =
                           PopBack(pl.keys)
                 ELSE IF Len(sl.keys) > S
                 THEN /\ q.keys = [p.keys EXCEPT ![i + 1] = succ]
                      /\ Len(q.pivots) = Len(p.pivots)
                      /\ \A c \in 1..Len(p.pivots) :
                           c # i + 2 => q.pivots[c] = p.pivots[c]
                      /\ most_leaf(q.pivots[i + 2], TRUE).keys =
                           Tail(sl.keys)
                 ELSE \A calls \in {delete_forced_calls(p, i)} :
                        LET from_left == (i % 2 = 0)
                            c == IF from_left THEN i ELSE i + 1
                            donor == IF from_left THEN left ELSE right
                            taken == IF from_left THEN pred ELSE succ
                            n == Len(calls)
                        IN /\ n = level(donor, 0).value
                           /\ calls[n].from = "match"
                           /\ calls[n].i = c
                           /\ calls[n].node.keys =
                                [p.keys EXCEPT ![i + 1] = taken]
                           /\ SubtreeKeys(calls[n].node.pivots[c + 1]) =
                                SubtreeKeys(donor) \ {taken.key}
                           /\ \A b \in 1..Len(p.pivots) :
                                b # c + 1 =>
                                  calls[n].node.pivots[b] = p.pivots[b]
                           /\ \A j \in 1..(n - 1) :
                                /\ calls[j].from = "donor"
                                /\ level(calls[j].node, 0).value = j + 1
                                /\ calls[j].i =
                                     IF from_left
                                     THEN Len(calls[j].node.pivots) - 1
                                     ELSE 0
                           /\ q = rebalance(calls[n].node, c).node]_vars

\* Reached for C18: in a tree of order 2, a delete has found its key in the
\* root of a two-level tree and left a single leaf: neither neighbouring
\* leaf could give an entry away, the removal was forced and the leaves were
\* merged.
C18_Witness ==
  /\ S = 2
  /\ op.kind = "delete" /\ op.at = "internal" /\ op.ret = Some(op.key)
  /\ op.depth = 2 /\ Level.value = 1

\* Two subtrees of the same shape: leaf on leaf, and every node with as
\* many children as its counterpart
RECURSIVE SameShape(_, _)
SameShape(a, b) ==
  /\ a.is_leaf = b.is_leaf
  /\ Len(a.pivots) = Len(b.pivots)
  /\ \A j \in 1..Len(a.pivots) : SameShape(a.pivots[j], b.pivots[j])

\* The nodes of a subtree whose number of entries differs from that of their
\* counterpart in a subtree of the same shape, each with its counterpart
RECURSIVE CountChanges(_, _)
CountChanges(a, b) ==
  (IF Len(a.keys) # Len(b.keys) THEN {[before |-> a, after |-> b]} ELSE {})
    \cup UNION {CountChanges(a.pivots[j], b.pivots[j]) :
                  j \in 1..Len(a.pivots)}

\* C19: a delete that finds its key in an internal node and can take the
\* predecessor or the successor from a leaf of more than S entries changes
\* the number of entries of exactly one node, that leaf, which loses one
\* entry and still holds at least S; the shape of the tree, the number of
\* entries of every other node and the depth are as before, and every
\* rebalance call of the delete finds its child with at least S entries and
\* leaves its node as it is.
C19_DonorOnly ==
  [][(op'.kind = "delete" /\ op'.at = "internal") =>
       \A m \in {match_at(root, op'.key)} :
         \A pl \in {most_leaf(m.node.pivots[m.i + 1], FALSE)},
            sl \in {most_leaf(m.node.pivots[m.i + 2], TRUE)} :
           (Len(pl.keys) > S \/ Len(sl.keys) > S) =>
             /\ SameShape(root, root')
             /\ level(root', 0) = level(root, 0)
             /\ \A changes \in {CountChanges(root, root')} :
                  /\ Cardinality(changes) = 1
                  /\ \A ch \in changes :
                       /\ ch.before.is_leaf
                       /\ ch.before = IF Len(pl.keys) > S THEN pl ELSE sl
                       /\ Len(ch.after.keys) = Len(ch.before.keys) - 1
                       /\ Len(ch.after.keys) >= S
             /\ \A calls \in {rebalance_calls(root, op'.key)} :
                  \A j \in 1..Len(calls) :
                    /\ Len(calls[j].node.pivots[calls[j].i + 1].keys) >= S
                    /\ rebalance(calls[j].node, calls[j].i).node =
                         calls[j].node]_vars

\* Reached for C19: a delete has found its key in the single entry of the
\* root of a two-level tree, which still has two levels and a root of one
\* entry over no more than 3S keys: no merge took place, so a leaf of more
\* than S entries gave the replacement.
C19_Witness ==
  /\ op.kind = "delete" /\ op.at = "internal" /\ op.ret # None
  /\ op.depth = 2 /\ Level.value = 2
  /\ Len(root.keys) = 1 /\ Size <= 3 * S

\* A valid non-root node: between S and 2S entries in strictly ascending
\* order, no children if it is a leaf, and otherwise one child more than
\* entries, the keys under each child lying between the entries next to it
ValidNode(n) ==
  /\ Len(n.keys) >= S /\ Len(n.keys) <= 2 * S
  /\ \A j \in 1..(Len(n.keys) - 1) : n.keys[j].key < n.keys[j + 1].key
  /\ IF n.is_leaf
     THEN n.pivots = << >>
     ELSE /\ Len(n.pivots) = Len(n.keys) + 1
          /\ \A c \in 1..Len(n.pivots) :
               \A k \in SubtreeKeys(n.pivots[c]) :
                 /\ c <= Len(n.keys) => k < n.keys[c].key
                 /\ c > 1 => k > n.keys[c - 1].key

\* The merges among the rebalance calls of delete(key) on a tree: for each,
\* the two siblings and their separator before the call and the node that
\* holds them after it
Merges(tree, key) ==
  LET calls == rebalance_calls(tree, key)
      merging(p, i) ==
        /\ Len(p.pivots[i + 1].keys) < S
        /\ ~(i + 1 < Len(p.pivots) /\ Len(p.pivots[i + 2].keys) > S)
        /\ ~(i > 0 /\ Len(p.pivots[i].keys) > S)
      at(p, i) == IF i + 1 < Len(p.pivots) THEN i ELSE i - 1
  IN {[under |-> calls[j].node.pivots[calls[j].i + 1],
       left |-> calls[j].node.pivots[at(calls[j].node, calls[j].i) + 1],
       separator |-> calls[j].node.keys[at(calls[j].node, calls[j].i) + 1],
       right |-> calls[j].node.pivots[at(calls[j].node, calls[j].i) + 2],
       merged |-> rebalance(calls[j].node, calls[j].i)
                    .node.pivots[at(calls[j].node, calls[j].i) + 1]] :
        j \in {h \in 1..Len(calls) : merging(calls[h].node, calls[h].i)}}

\* C20 as stated: every merge a delete makes combines two siblings that
\* both hold fewer than S entries, and the separator between them, into one
\* valid node.
C20_Merge_AsStated ==
  [][op'.kind = "delete" =>
       \A m \in Merges(root, op'.key) :
         /\ Len(m.left.keys) < S /\ Len(m.right.keys) < S
         /\ m.merged.keys = m.left.keys \o << m.separator >> \o m.right.keys
         /\ m.merged.pivots = m.left.pivots \o m.right.pivots
         /\ ValidNode(m.merged)]_vars

\* C20: every merge a delete makes combines a node that holds S - 1 entries,
\* a sibling next to it that holds exactly S, and the separator between
\* them, into one valid node: 2S strictly ascending entries and, if the node
\* is internal, 2S + 1 children in order.
C20_Merge ==
  [][op'.kind = "delete" =>
       \A m \in Merges(root, op'.key) :
         /\ Len(m.under.keys) = S - 1
         /\ m.under = m.left \/ m.under = m.right
         /\ {Len(m.left.keys), Len(m.right.keys)} = {S - 1, S}
         /\ m.merged.keys = m.left.keys \o << m.separator >> \o m.right.keys
         /\ m.merged.pivots = m.left.pivots \o m.right.pivots
         /\ Len(m.merged.keys) = 2 * S
         /\ ValidNode(m.merged)]_vars

\* Reached for C20: a delete has taken the smallest key from the leftmost
\* leaf of a two-level tree that still has two levels, and the leftmost leaf
\* holds 2S entries now: it was merged with the leaf next to it.
C20_Witness ==
  /\ op.kind = "delete" /\ op.at = "leaf" /\ op.ret # None
  /\ op.depth = 2 /\ Level.value = 2
  /\ \A k \in SubtreeKeys(root) : op.key < k
  /\ root.pivots[1].is_leaf /\ Len(root.pivots[1].keys) = 2 * S

\* The number of nodes strictly below the given one that hold fewer than S
\* entries
RECURSIVE UnderCount(_)
RECURSIVE UnderSum(_, _)
UnderCount(node) == UnderSum(node.pivots, Len(node.pivots))

UnderSum(pivots, j) ==
  IF j = 0 THEN 0
  ELSE (IF Len(pivots[j].keys) < S THEN 1 ELSE 0)
         + UnderCount(pivots[j]) + UnderSum(pivots, j - 1)

\* No node strictly below the given one holds fewer than S entries
RECURSIVE NoneShort(_)
NoneShort(node) ==
  \A j \in 1..Len(node.pivots) :
    Len(node.pivots[j].keys) >= S /\ NoneShort(node.pivots[j])

\* C21: at every point of a delete at which rebalance is about to be called,
\* at most one non-root node of the tree holds fewer than S entries; it
\* holds exactly S - 1 and is the child that call is to repair. Both
\* siblings of that child hold at least S entries, so the call leaves every
\* child of its node between S and 2S entries: no rotation takes its donor
\* below S and no merge makes a node of more than 2S. The last call yields
\* what the delete leaves, in which no non-root node is short.
C21_OneShortNode ==
  [][op'.kind = "delete" =>
       \A points \in {delete_points(root, op'.key)},
          done \in {delete(root, op'.key)} :
         /\ ~done.panic
         /\ NoneShort(done.node)
         /\ \A j \in 1..Len(points) :
              \A t \in {points[j]} :
                \A q \in {rebalance(t.node, t.i).node} :
                  LET child == t.node.pivots[t.i + 1]
                      short == IF Len(child.keys) < S THEN 1 ELSE 0
                  IN /\ UnderCount(t.tree) = short
                     /\ Len(child.keys) >= S - 1
                     /\ t.i + 1 < Len(t.node.pivots) =>
                          Len(t.node.pivots[t.i + 2].keys) >= S
                     /\ t.i > 0 => Len(t.node.pivots[t.i].keys) >= S
                     /\ \A c \in 1..Len(q.pivots) :
                          /\ Len(q.pivots[c].keys) >= S
                          /\ Len(q.pivots[c].keys) <= 2 * S
                     /\ j = Len(points) =>
                          (t.tree = t.node /\ q = done.node)]_vars

\* Reached for C21: a delete has taken the largest key from the rightmost
\* leaf of a three-level tree that still has three levels, and the rightmost
\* leaf holds 2S entries now: the leaf was one entry short and was merged
\* into its sibling, then the internal node above was one entry short and
\* took an entry and a child from its sibling through the root.
C21_Witness ==
  /\ op.kind = "delete" /\ op.at = "leaf" /\ op.ret # None
  /\ op.depth = 3 /\ Level.value = 3
  /\ \A k \in SubtreeKeys(root) : op.key > k
  /\ LET last == root.pivots[Len(root.pivots)]
     IN Len(last.pivots[Len(last.pivots)].keys) = 2 * S

====
